---- MODULE Spec2Model ----
(***************************************************************************)
(* State-machine model of the server registry and lifecycle workflows of   *)
(* src/src/main.rs (BlockOps "mc-server" CLI).                             *)
(*                                                                         *)
(* Strings are sequences of one-character strings, paths are records       *)
(* [abs, parts], the filesystem is a set of directories plus a map from    *)
(* file paths to contents, and each command of the CLI is a sequence of    *)
(* steps (pc) that follow the statements of its handler.  Every external   *)
(* process and every filesystem mutation may fail.                         *)
(***************************************************************************)
EXTENDS Integers, Sequences, FiniteSets, TLC

VARIABLES
    dirs,            \* directories that exist (absolute component sequences)
    files,           \* file path (absolute component sequence) -> content
    running,         \* container names of live containers
    dockerInstalled, \* whether `docker --version` can be spawned
    now,             \* wall clock, advanced once per command invocation
    pc,              \* position of the running command ("idle" between commands)
    cmd,             \* the command line of the running invocation
    server_name,     \* name the running handler works on (Option)
    result,          \* what main returned (Option of an error tag or "Ok")
    config,          \* ServerConfig loaded by the outer handler (Option)
    inner,           \* ServerConfig loaded by start_servers / stop_servers (Option)
    todo,            \* names start_servers / stop_servers still has to visit
    cur,             \* name whose `up` just succeeded (Option)
    ret,             \* where the handler that called stop_servers continues
    pending,         \* values collected by the prompts of create_server (Option)
    log,             \* what this invocation did, in order: processes, file operations, prompts
    rejected,        \* names the name prompt's validator refused in this invocation
    pre,             \* filesystem at the start of the invocation (Option)
    deleting         \* history: names whose data directory remove_server set out to delete
                     \* and whose registry entry it has not removed since

localVars == <<server_name, config, inner, todo, cur, ret, pending>>
vars == <<dirs, files, running, dockerInstalled, now, pc, cmd, server_name, result,
          config, inner, todo, cur, ret, pending, log, rejected, pre, deleting>>

(***************************************************************************)
(* Bounds of the model.                                                    *)
(***************************************************************************)
MaxCommands == 3

(***************************************************************************)
(* Option values.                                                          *)
(***************************************************************************)
None == <<>>

Some(x) == <<x>>

IsSome(o) == o # <<>>

Unwrap(o) == o[1]

(***************************************************************************)
(* String constants of the program.                                        *)
(***************************************************************************)
CONFIG_DIR == <<".", "m", "c", "-", "s", "e", "r", "v", "e", "r", "s">>

CONFIG_FILE == <<"s", "e", "r", "v", "e", "r", "s", ".", "j", "s", "o", "n">>

BACKUP_DIR == <<"b", "a", "c", "k", "u", "p", "s">>

COMPOSE_FILE == <<"d", "o", "c", "k", "e", "r", "-", "c", "o", "m", "p", "o", "s", "e",
                  ".", "y", "m", "l">>

ContainerPrefix == <<"m", "c", "-">>

TarGzSuffix == <<".", "t", "a", "r", ".", "g", "z">>

server_types == <<"VANILLA", "PAPER", "FORGE", "FABRIC", "SPIGOT", "PURPUR">>

(***************************************************************************)
(* Characters: char::is_alphanumeric on the characters the model uses.     *)
(***************************************************************************)
Letters == {"a", "b", "c", "d", "e", "g", "j", "k", "l", "m", "n", "o", "p", "r", "s",
            "t", "u", "v", "w", "x", "y", "z"}

Digits == {"0", "1", "2", "3", "4", "5", "6", "7", "8", "9"}

is_alphanumeric(c) == c \in Letters \cup Digits

ValidName(input) ==
    \A i \in 1..Len(input) : is_alphanumeric(input[i]) \/ input[i] = "-" \/ input[i] = "_"

(***************************************************************************)
(* Paths (std::path::Path): a string is split at "/" into components.      *)
(***************************************************************************)
RECURSIVE Components(_)
Components(s) ==
    IF s = <<>> THEN <<>>
    ELSE LET cut == IF \E i \in 1..Len(s) : s[i] = "/"
                    THEN CHOOSE i \in 1..Len(s) : s[i] = "/" /\ \A j \in 1..(i - 1) : s[j] # "/"
                    ELSE Len(s) + 1
             head == SubSeq(s, 1, cut - 1)
             rest == SubSeq(s, cut + 1, Len(s))
         IN (IF head = <<>> THEN <<>> ELSE <<head>>) \o Components(rest)

PathNew(s) == [abs |-> (s # <<>> /\ s[1] = "/"), parts |-> Components(s)]

PathJoin(p, s) ==
    LET q == PathNew(s)
    IN IF q.abs THEN q ELSE [abs |-> p.abs, parts |-> p.parts \o q.parts]

RECURSIVE JoinParts(_)
JoinParts(parts) ==
    IF parts = <<>> THEN <<>>
    ELSE IF Len(parts) = 1 THEN parts[1]
    ELSE parts[1] \o <<"/">> \o JoinParts(Tail(parts))

to_string_lossy(p) == (IF p.abs THEN <<"/">> ELSE <<>>) \o JoinParts(p.parts)

(***************************************************************************)
(* The operating system's view: the process runs in WorkDir, a relative    *)
(* path is resolved against the working directory of whoever opens it.     *)
(***************************************************************************)
WorkDir == << <<"w">> >>

Resolve(cwd, p) == IF p.abs THEN p.parts ELSE cwd \o p.parts

IsPrefix(p, q) == Len(p) <= Len(q) /\ SubSeq(q, 1, Len(p)) = p

Parent(a) == SubSeq(a, 1, Len(a) - 1)

Prefixes(a) == {SubSeq(a, 1, n) : n \in 0..Len(a)}

PathExists(a) == a \in dirs \/ a \in DOMAIN files

FilesUnder(a) == {f \in DOMAIN files : IsPrefix(a, f)}

Restrict(f, S) == [x \in S |-> f[x]]

(***************************************************************************)
(* Filesystem operations.  Each yields the set of outcomes the operating   *)
(* system can produce: [ok, dirs, files].  A failed write may have opened  *)
(* and truncated the file; a failed recursive removal may have removed     *)
(* some of the files under the directory.                                  *)
(***************************************************************************)
Truncated == [kind |-> "truncated"]

create_dir_all(a) ==
    IF a \in dirs THEN {[ok |-> TRUE, dirs |-> dirs, files |-> files]}
    ELSE IF \E p \in Prefixes(a) : p \in DOMAIN files
    THEN {[ok |-> FALSE, dirs |-> dirs, files |-> files]}
    ELSE {[ok |-> TRUE, dirs |-> dirs \cup Prefixes(a), files |-> files],
          [ok |-> FALSE, dirs |-> dirs, files |-> files]}

fs_write(a, content) ==
    IF Parent(a) \notin dirs \/ a \in dirs
    THEN {[ok |-> FALSE, dirs |-> dirs, files |-> files]}
    ELSE {[ok |-> TRUE, dirs |-> dirs, files |-> (a :> content) @@ files],
          [ok |-> FALSE, dirs |-> dirs, files |-> files],
          [ok |-> FALSE, dirs |-> dirs, files |-> (a :> Truncated) @@ files]}

remove_dir_all(a) ==
    IF a \notin dirs THEN {[ok |-> FALSE, dirs |-> dirs, files |-> files]}
    ELSE {[ok |-> TRUE,
           dirs |-> {d \in dirs : ~IsPrefix(a, d)},
           files |-> Restrict(files, DOMAIN files \ FilesUnder(a))]}
         \cup {[ok |-> FALSE, dirs |-> dirs, files |-> Restrict(files, DOMAIN files \ S)] :
                 S \in SUBSET FilesUnder(a)}

(***************************************************************************)
(* Registry Store.                                                         *)
(***************************************************************************)
EmptyServers == [n \in {} |-> None]

config_path == PathJoin(PathNew(CONFIG_DIR), CONFIG_FILE)

to_string_pretty(servers) == [kind |-> "json", servers |-> servers]

from_str(content) ==
    IF content.kind = "json" THEN [err |-> "Ok", servers |-> content.servers]
    ELSE [err |-> "ConfigParse", servers |-> EmptyServers]

load_from(fs) ==
    LET a == Resolve(WorkDir, config_path)
    IN IF a \in DOMAIN fs.files THEN from_str(fs.files[a])
       ELSE IF a \in fs.dirs THEN [err |-> "Io", servers |-> EmptyServers]
       ELSE [err |-> "Ok", servers |-> EmptyServers]

load_server_config == load_from([dirs |-> dirs, files |-> files])

save_server_config(servers) == fs_write(Resolve(WorkDir, config_path), to_string_pretty(servers))

(***************************************************************************)
(* What the persisted registry holds, as a reader of the file sees it.     *)
(***************************************************************************)
Registry == load_server_config.servers

Registered == DOMAIN Registry

(***************************************************************************)
(* External processes.                                                     *)
(***************************************************************************)
Call(prog, sub, cwd, arg, status) ==
    [prog |-> prog, sub |-> sub, cwd |-> cwd, arg |-> arg, status |-> status]

FsOp(op, path, ok) == Call("fs", op, path, None, IF ok THEN "success" ELSE "failed")

Prompt(which, answer) == Call("prompt", which, <<>>, None, IF answer THEN "yes" ELSE "no")

(***************************************************************************)
(* Inputs: command lines and answers to prompts.                           *)
(***************************************************************************)
NameB == <<"b">>

NameBackups == BACKUP_DIR

NameBad == <<"b", " ">>

ValidNames == {NameB, NameBackups}

NameInputs == ValidNames \cup {NameBad}

UserArchive == <<"o", ".", "t", "g", "z">>

UserArchiveContent == [kind |-> "targz", entries |-> (<< <<"l">> >> :> [kind |-> "data"])]

ArchivePaths == {UserArchive, <<"/", "w", "/">> \o UserArchive, <<"n">>}

CommandLines ==
    {[op |-> o, name |-> None, force |-> FALSE, path |-> None] : o \in {"create", "list"}}
    \cup {[op |-> o, name |-> n, force |-> FALSE, path |-> None] :
            o \in {"start", "stop"}, n \in {None} \cup {Some(x) : x \in ValidNames}}
    \cup {[op |-> "remove", name |-> Some(n), force |-> f, path |-> None] :
            n \in ValidNames, f \in BOOLEAN}
    \cup {[op |-> "backup", name |-> Some(n), force |-> FALSE, path |-> None] :
            n \in ValidNames}
    \cup {[op |-> "restore", name |-> Some(n), force |-> FALSE, path |-> Some(a)] :
            n \in ValidNames, a \in ArchivePaths}

(***************************************************************************)
(* Descriptor Generator (the compose document built by create_server).     *)
(* format!("K={}", v) is the pair <<K, v>>; format!("mc-{}", name) is the  *)
(* concatenation of characters.                                            *)
(***************************************************************************)
data_path_of(name) == PathJoin(PathNew(CONFIG_DIR), name)

mod_loader_of(server_type) ==
    IF server_type \in {"FORGE", "FABRIC"} THEN Some(server_type) ELSE None

(* Mutant of environment_of: the mod loader adds no TYPE entry of its own. *)
environment_of_without_override(p) ==
    <<<<"EULA", "TRUE">>, <<"MEMORY", p.memory>>, <<"VERSION", p.version>>,
      <<"TYPE", p.server_type>>>>
    \o (IF IsSome(p.mod_loader) /\ IsSome(p.mod_loader_version)
        THEN CASE Unwrap(p.mod_loader) = "FORGE" ->
                    <<<<"FORGE_VERSION", Unwrap(p.mod_loader_version)>>>>
               [] Unwrap(p.mod_loader) = "FABRIC" ->
                    <<<<"FABRIC_VERSION", Unwrap(p.mod_loader_version)>>>>
               [] OTHER -> <<>>
        ELSE <<>>)
    \o (IF IsSome(p.java_args) THEN <<<<"JVM_OPTS", Unwrap(p.java_args)>>>> ELSE <<>>)

environment_of(p) ==
    <<<<"EULA", "TRUE">>, <<"MEMORY", p.memory>>, <<"VERSION", p.version>>,
      <<"TYPE", p.server_type>>>>
    \o (IF IsSome(p.mod_loader)
        THEN <<<<"TYPE", Unwrap(p.mod_loader)>>>>
             \o (IF IsSome(p.mod_loader_version)
                 THEN CASE Unwrap(p.mod_loader) = "FORGE" ->
                             <<<<"FORGE_VERSION", Unwrap(p.mod_loader_version)>>>>
                        [] Unwrap(p.mod_loader) = "FABRIC" ->
                             <<<<"FABRIC_VERSION", Unwrap(p.mod_loader_version)>>>>
                        [] OTHER -> <<>>
                 ELSE <<>>)
        ELSE <<>>)
    \o (IF IsSome(p.java_args) THEN <<<<"JVM_OPTS", Unwrap(p.java_args)>>>> ELSE <<>>)

container_name_of(name) == ContainerPrefix \o name

compose_config_of(name, p) ==
    [version |-> "3.8",
     services |-> (name :>
        [image |-> "itzg/minecraft-server",
         container_name |-> container_name_of(name),
         ports |-> <<<<p.port, "25565">>>>,
         environment |-> environment_of(p),
         volumes |-> <<<<to_string_lossy(data_path_of(name)), "/data">>>>,
         restart |-> "unless-stopped",
         stdin_open |-> TRUE,
         tty |-> TRUE])]

to_yaml(doc) == [kind |-> "yaml", doc |-> doc]

server_info_of(name, p) ==
    [version |-> p.version,
     port |-> p.port,
     memory |-> p.memory,
     data_path |-> to_string_lossy(data_path_of(name)),
     server_type |-> p.server_type,
     mod_loader |-> p.mod_loader,
     mod_loader_version |-> p.mod_loader_version,
     java_args |-> p.java_args,
     created_at |-> now,
     last_started |-> None]

(***************************************************************************)
(* Answers the prompts of create_server can collect.                       *)
(***************************************************************************)
TypeChoices == {1, 3}

JavaArgChoices == {None, Some("-XX:+UseG1GC")}

PromptAnswers ==
    {[server_type |-> server_types[i],
      version |-> "LATEST",
      mod_loader |-> mod_loader_of(server_types[i]),
      mod_loader_version |-> IF IsSome(mod_loader_of(server_types[i]))
                             THEN Some("RECOMMENDED") ELSE None,
      memory |-> "2G",
      port |-> "25565",
      java_args |-> j] : i \in TypeChoices, j \in JavaArgChoices}

(***************************************************************************)
(* Runtime Gateway: docker-compose run in a server's data directory.       *)
(* The outcomes are [status, running].  The process cannot be spawned in   *)
(* a directory that does not exist, and exits non-zero when the directory  *)
(* holds no readable compose document.                                     *)
(***************************************************************************)
compose_path_in(dir) == dir \o <<COMPOSE_FILE>>

HasDescriptor(dir) ==
    /\ compose_path_in(dir) \in DOMAIN files
    /\ files[compose_path_in(dir)].kind = "yaml"

ContainersOf(dir) ==
    LET doc == files[compose_path_in(dir)].doc
    IN {doc.services[s].container_name : s \in DOMAIN doc.services}

docker_compose(sub, dir) ==
    IF dir \notin dirs THEN {[status |-> "spawn_failed", running |-> running]}
    ELSE {[status |-> "spawn_failed", running |-> running],
          [status |-> "nonzero", running |-> running]}
         \cup (IF HasDescriptor(dir)
               THEN {[status |-> "success",
                      running |-> IF sub = "up" THEN running \cup ContainersOf(dir)
                                  ELSE running \ ContainersOf(dir)]}
               ELSE {})

StatusError(status) == IF status = "nonzero" THEN "DockerCommandFailed" ELSE "Io"

(***************************************************************************)
(* The archive tool: tar run in a server's data directory.  Outcomes are   *)
(* [status, dirs, files].  tar resolves the archive path it is given       *)
(* against its own working directory.                                      *)
(***************************************************************************)
DigitChars == <<"0", "1", "2", "3", "4", "5", "6", "7", "8", "9">>

format_timestamp(t) == <<DigitChars[((t \div 10) % 10) + 1], DigitChars[(t % 10) + 1]>>

backup_file_of(name, t) ==
    PathJoin(PathJoin(PathNew(CONFIG_DIR), BACKUP_DIR),
             name \o <<"_">> \o format_timestamp(t) \o TarGzSuffix)

RelativeTo(dir, f) == SubSeq(f, Len(dir) + 1, Len(f))

ArchiveOf(dir, dest) ==
    LET members == FilesUnder(dir) \ {dest}
    IN [kind |-> "targz",
        entries |-> [r \in {RelativeTo(dir, f) : f \in members} |-> files[dir \o r]]]

tar_create(dir, arg) ==
    LET dest == Resolve(dir, PathNew(arg))
        unchanged == [dirs |-> dirs, files |-> files]
    IN IF dir \notin dirs THEN {[status |-> "spawn_failed"] @@ unchanged}
       ELSE {[status |-> "spawn_failed"] @@ unchanged, [status |-> "nonzero"] @@ unchanged}
            \cup (IF Parent(dest) \in dirs /\ dest \notin dirs
                  THEN {[status |-> "success", dirs |-> dirs,
                         files |-> (dest :> ArchiveOf(dir, dest)) @@ files],
                        [status |-> "nonzero", dirs |-> dirs,
                         files |-> (dest :> Truncated) @@ files]}
                  ELSE {})

Extracted(dir, entries, S) == [f \in {dir \o r : r \in S} |-> entries[RelativeTo(dir, f)]]

tar_extract(dir, arg) ==
    LET src == Resolve(dir, PathNew(arg))
        unchanged == [dirs |-> dirs, files |-> files]
    IN IF dir \notin dirs THEN {[status |-> "spawn_failed"] @@ unchanged}
       ELSE {[status |-> "spawn_failed"] @@ unchanged, [status |-> "nonzero"] @@ unchanged}
            \cup (IF src \in DOMAIN files /\ files[src].kind = "targz"
                  THEN LET entries == files[src].entries
                       IN {[status |-> "success", dirs |-> dirs,
                            files |-> Extracted(dir, entries, DOMAIN entries) @@ files]}
                          \cup {[status |-> "nonzero", dirs |-> dirs,
                                 files |-> Extracted(dir, entries, S) @@ files] :
                                  S \in SUBSET DOMAIN entries}
                  ELSE {})

(***************************************************************************)
(* Initial state: nothing has run yet in the working directory, which      *)
(* holds an archive the user brought along.                                *)
(***************************************************************************)
Init ==
    /\ dirs = Prefixes(WorkDir)
    /\ files = (Resolve(WorkDir, PathNew(UserArchive)) :> UserArchiveContent)
    /\ running = {}
    /\ dockerInstalled \in BOOLEAN
    /\ now = 0
    /\ pc = "idle"
    /\ cmd = None
    /\ server_name = None
    /\ result = None
    /\ config = None
    /\ inner = None
    /\ todo = {}
    /\ cur = None
    /\ ret = "return"
    /\ pending = None
    /\ log = <<>>
    /\ rejected = {}
    /\ pre = None
    /\ deleting = {}

Snapshot == [dirs |-> dirs, files |-> files, running |-> running]

Finish(r) ==
    /\ pc' = "done"
    /\ result' = Some(r)

Goto(label) ==
    /\ pc' = label
    /\ UNCHANGED result

(***************************************************************************)
(* One filesystem operation of a handler: the operating system picks the   *)
(* outcome, the handler goes on when it succeeded and returns the          *)
(* io::Error (the `?` operator) when it failed.                            *)
(***************************************************************************)
FsStep(outcomes, op, path, onOk) ==
    \E o \in outcomes :
        /\ dirs' = o.dirs
        /\ files' = o.files
        /\ log' = Append(log, FsOp(op, path, o.ok))
        /\ IF o.ok THEN onOk ELSE Finish("Io")

(***************************************************************************)
(* main: a command line arrives; ensure_config_dir; docker probe.          *)
(***************************************************************************)
Invoke ==
    /\ pc = "idle"
    /\ now < MaxCommands
    /\ \E c \in CommandLines : cmd' = Some(c)
    /\ now' = now + 1
    /\ pc' = "ensure_config_dir"
    /\ pre' = Some(Snapshot)
    /\ UNCHANGED <<dirs, files, running, dockerInstalled, result, log, rejected, deleting>>
    /\ UNCHANGED localVars

ensure_config_dir ==
    /\ pc = "ensure_config_dir"
    /\ LET config_dir == Resolve(WorkDir, PathNew(CONFIG_DIR))
       IN IF PathExists(config_dir)
          THEN /\ Goto("check_docker_installed")
               /\ UNCHANGED <<dirs, files, log>>
          ELSE FsStep(create_dir_all(config_dir), "create_dir_all", config_dir,
                      Goto("ensure_backup_dir"))
    /\ UNCHANGED <<running, dockerInstalled, now, cmd, rejected, pre, deleting>>
    /\ UNCHANGED localVars

ensure_backup_dir ==
    /\ pc = "ensure_backup_dir"
    /\ LET backup_dir == Resolve(WorkDir, PathJoin(PathNew(CONFIG_DIR), BACKUP_DIR))
       IN FsStep(create_dir_all(backup_dir), "create_dir_all", backup_dir, Goto("ensure_save"))
    /\ UNCHANGED <<running, dockerInstalled, now, cmd, rejected, pre, deleting>>
    /\ UNCHANGED localVars

ensure_save ==
    /\ pc = "ensure_save"
    /\ FsStep(save_server_config(EmptyServers), "write", Resolve(WorkDir, config_path),
              Goto("check_docker_installed"))
    /\ UNCHANGED <<running, dockerInstalled, now, cmd, rejected, pre, deleting>>
    /\ UNCHANGED localVars

HandlerEntry(op) ==
    CASE op = "create" -> "create_prompt"
      [] op = "start" -> "start_load"
      [] op = "stop" -> "stop_load"
      [] op = "remove" -> "remove_load"
      [] op = "backup" -> "backup_load"
      [] op = "restore" -> "restore_load"
      [] op = "list" -> "list_load"

Dispatch ==
    /\ pc' = HandlerEntry(Unwrap(cmd).op)
    /\ server_name' = Unwrap(cmd).name
    /\ UNCHANGED result

check_docker_installed ==
    /\ pc = "check_docker_installed"
    /\ log' = Append(log, Call("docker", "--version", WorkDir, None,
                               IF dockerInstalled THEN "success" ELSE "spawn_failed"))
    /\ IF dockerInstalled THEN Dispatch
       ELSE Goto("install_docker") /\ UNCHANGED server_name
    /\ UNCHANGED <<dirs, files, running, dockerInstalled, now, cmd, rejected, pre, deleting>>
    /\ UNCHANGED <<config, inner, todo, cur, ret, pending>>

install_docker ==
    /\ pc = "install_docker"
    /\ \E status \in {"success", "nonzero", "spawn_failed"} :
         /\ log' = Append(log, Call("sh", "-c", WorkDir, None, status))
         /\ IF status = "success"
            THEN dockerInstalled' = TRUE /\ Dispatch
            ELSE Finish(IF status = "nonzero" THEN "DockerCommandFailed" ELSE "Io")
                 /\ UNCHANGED <<dockerInstalled, server_name>>
    /\ UNCHANGED <<dirs, files, running, now, cmd, rejected, pre, deleting>>
    /\ UNCHANGED <<config, inner, todo, cur, ret, pending>>

(***************************************************************************)
(* main returns: the process exits and its locals are gone.                *)
(***************************************************************************)
Return ==
    /\ pc = "done"
    /\ pc' = "idle"
    /\ cmd' = None
    /\ server_name' = None
    /\ result' = None
    /\ config' = None
    /\ inner' = None
    /\ todo' = {}
    /\ cur' = None
    /\ ret' = "return"
    /\ pending' = None
    /\ log' = <<>>
    /\ rejected' = {}
    /\ pre' = None
    /\ UNCHANGED <<dirs, files, running, dockerInstalled, now, deleting>>

(***************************************************************************)
(* create_server                                                           *)
(***************************************************************************)
create_prompt ==
    /\ pc = "create_prompt"
    /\ \E input \in NameInputs :
         IF ValidName(input)
         THEN /\ server_name' = Some(input)
              /\ pc' = "create_load"
              /\ UNCHANGED rejected
         ELSE /\ rejected' = rejected \cup {input}
              /\ UNCHANGED <<server_name, pc>>
    /\ UNCHANGED <<dirs, files, running, dockerInstalled, now, cmd, result, log, pre, deleting>>
    /\ UNCHANGED <<config, inner, todo, cur, ret, pending>>

(* Mutant of create_load: the contains_key check is missing. *)
create_load_no_exists_check ==
    /\ pc = "create_load"
    /\ LET loaded == load_server_config
       IN IF loaded.err # "Ok"
          THEN Finish(loaded.err) /\ UNCHANGED <<config, pending, log>>
          ELSE /\ config' = Some(loaded.servers)
               /\ \E p \in PromptAnswers, eula \in BOOLEAN :
                    /\ pending' = Some(p)
                    /\ log' = Append(log, Prompt("eula", eula))
                    /\ IF eula THEN Goto("create_dir") ELSE Finish("Ok")
    /\ UNCHANGED <<dirs, files, running, dockerInstalled, now, cmd, rejected, pre, deleting>>
    /\ UNCHANGED <<server_name, inner, todo, cur, ret>>

(* Mutant of create_load: the answer to the EULA prompt is not looked at. *)
create_load_eula_ignored ==
    /\ pc = "create_load"
    /\ LET loaded == load_server_config
       IN IF loaded.err # "Ok"
          THEN Finish(loaded.err) /\ UNCHANGED <<config, pending, log>>
          ELSE /\ config' = Some(loaded.servers)
               /\ IF Unwrap(server_name) \in DOMAIN loaded.servers
                  THEN Finish("ServerExists") /\ UNCHANGED <<pending, log>>
                  ELSE \E p \in PromptAnswers, eula \in BOOLEAN :
                         /\ pending' = Some(p)
                         /\ log' = Append(log, Prompt("eula", eula))
                         /\ Goto("create_dir")
    /\ UNCHANGED <<dirs, files, running, dockerInstalled, now, cmd, rejected, pre, deleting>>
    /\ UNCHANGED <<server_name, inner, todo, cur, ret>>

create_load ==
    /\ pc = "create_load"
    /\ LET loaded == load_server_config
       IN IF loaded.err # "Ok"
          THEN Finish(loaded.err) /\ UNCHANGED <<config, pending, log>>
          ELSE /\ config' = Some(loaded.servers)
               /\ IF Unwrap(server_name) \in DOMAIN loaded.servers
                  THEN Finish("ServerExists") /\ UNCHANGED <<pending, log>>
                  ELSE \E p \in PromptAnswers, eula \in BOOLEAN :
                         /\ pending' = Some(p)
                         /\ log' = Append(log, Prompt("eula", eula))
                         /\ IF eula THEN Goto("create_dir") ELSE Finish("Ok")
    /\ UNCHANGED <<dirs, files, running, dockerInstalled, now, cmd, rejected, pre, deleting>>
    /\ UNCHANGED <<server_name, inner, todo, cur, ret>>

(* Mutant of create_dir: the descriptor is never written. *)
create_dir_skips_compose ==
    /\ pc = "create_dir"
    /\ LET data_path == Resolve(WorkDir, data_path_of(Unwrap(server_name)))
       IN FsStep(create_dir_all(data_path), "create_dir_all", data_path, Goto("create_save"))
    /\ UNCHANGED <<running, dockerInstalled, now, cmd, rejected, pre, deleting>>
    /\ UNCHANGED localVars

create_dir ==
    /\ pc = "create_dir"
    /\ LET data_path == Resolve(WorkDir, data_path_of(Unwrap(server_name)))
       IN FsStep(create_dir_all(data_path), "create_dir_all", data_path, Goto("create_compose"))
    /\ UNCHANGED <<running, dockerInstalled, now, cmd, rejected, pre, deleting>>
    /\ UNCHANGED localVars

(* Mutant of create_compose: the result of fs::write is dropped. *)
create_compose_error_ignored ==
    /\ pc = "create_compose"
    /\ LET name == Unwrap(server_name)
           compose_path == Resolve(WorkDir, PathJoin(data_path_of(name), COMPOSE_FILE))
           yaml == to_yaml(compose_config_of(name, Unwrap(pending)))
       IN \E o \in fs_write(compose_path, yaml) :
            /\ dirs' = o.dirs
            /\ files' = o.files
            /\ log' = Append(log, FsOp("write", compose_path, o.ok))
            /\ Goto("create_save")
    /\ UNCHANGED <<running, dockerInstalled, now, cmd, rejected, pre, deleting>>
    /\ UNCHANGED localVars

create_compose ==
    /\ pc = "create_compose"
    /\ LET name == Unwrap(server_name)
           compose_path == Resolve(WorkDir, PathJoin(data_path_of(name), COMPOSE_FILE))
           yaml == to_yaml(compose_config_of(name, Unwrap(pending)))
       IN FsStep(fs_write(compose_path, yaml), "write", compose_path, Goto("create_save"))
    /\ UNCHANGED <<running, dockerInstalled, now, cmd, rejected, pre, deleting>>
    /\ UNCHANGED localVars

create_save ==
    /\ pc = "create_save"
    /\ LET name == Unwrap(server_name)
           servers == (name :> server_info_of(name, Unwrap(pending))) @@ Unwrap(config)
       IN /\ config' = Some(servers)
          /\ FsStep(save_server_config(servers), "write", Resolve(WorkDir, config_path),
                    Goto("create_confirm_start"))
    /\ UNCHANGED <<running, dockerInstalled, now, cmd, rejected, pre, deleting>>
    /\ UNCHANGED <<server_name, inner, todo, cur, ret, pending>>

create_confirm_start ==
    /\ pc = "create_confirm_start"
    /\ \E yes \in BOOLEAN :
         /\ log' = Append(log, Prompt("start_now", yes))
         /\ IF yes THEN Goto("start_load") ELSE Finish("Ok")
    /\ UNCHANGED <<dirs, files, running, dockerInstalled, now, cmd, rejected, pre, deleting>>
    /\ UNCHANGED localVars

(***************************************************************************)
(* start_servers, start_single_server, update_last_started                 *)
(***************************************************************************)
(* Mutant of start_load: an unknown name falls through to starting every server. *)
start_load_unknown_starts_all ==
    /\ pc = "start_load"
    /\ LET loaded == load_server_config
       IN IF loaded.err # "Ok"
          THEN Finish(loaded.err) /\ UNCHANGED <<inner, todo>>
          ELSE /\ inner' = Some(loaded.servers)
               /\ IF IsSome(server_name) /\ Unwrap(server_name) \in DOMAIN loaded.servers
                  THEN todo' = {Unwrap(server_name)} /\ Goto("start_single_server")
                  ELSE IF DOMAIN loaded.servers = {}
                       THEN Finish("Ok") /\ UNCHANGED todo
                       ELSE todo' = DOMAIN loaded.servers /\ Goto("start_single_server")
    /\ UNCHANGED <<dirs, files, running, dockerInstalled, now, cmd, log, rejected, pre, deleting>>
    /\ UNCHANGED <<server_name, config, cur, ret, pending>>

start_load ==
    /\ pc = "start_load"
    /\ LET loaded == load_server_config
       IN IF loaded.err # "Ok"
          THEN Finish(loaded.err) /\ UNCHANGED <<inner, todo>>
          ELSE /\ inner' = Some(loaded.servers)
               /\ IF IsSome(server_name)
                  THEN IF Unwrap(server_name) \in DOMAIN loaded.servers
                       THEN todo' = {Unwrap(server_name)} /\ Goto("start_single_server")
                       ELSE Finish("ServerNotFound") /\ UNCHANGED todo
                  ELSE IF DOMAIN loaded.servers = {}
                       THEN Finish("Ok") /\ UNCHANGED todo
                       ELSE todo' = DOMAIN loaded.servers /\ Goto("start_single_server")
    /\ UNCHANGED <<dirs, files, running, dockerInstalled, now, cmd, log, rejected, pre, deleting>>
    /\ UNCHANGED <<server_name, config, cur, ret, pending>>

(* Mutant of start_single_server: the exit status of `up` is not looked at. *)
start_single_server_unchecked ==
    /\ pc = "start_single_server"
    /\ \E name \in todo :
         LET dir == Resolve(WorkDir, PathNew(Unwrap(inner)[name].data_path))
         IN \E o \in docker_compose("up", dir) :
              /\ log' = Append(log, Call("docker-compose", "up", dir, Some(name), o.status))
              /\ running' = o.running
              /\ cur' = Some(name)
              /\ Goto("update_last_started")
    /\ UNCHANGED <<dirs, files, dockerInstalled, now, cmd, rejected, pre, deleting>>
    /\ UNCHANGED <<server_name, config, inner, todo, ret, pending>>

start_single_server ==
    /\ pc = "start_single_server"
    /\ \E name \in todo :
         LET dir == Resolve(WorkDir, PathNew(Unwrap(inner)[name].data_path))
         IN \E o \in docker_compose("up", dir) :
              /\ log' = Append(log, Call("docker-compose", "up", dir, Some(name), o.status))
              /\ running' = o.running
              /\ IF o.status = "success"
                 THEN cur' = Some(name) /\ Goto("update_last_started")
                 ELSE Finish(StatusError(o.status)) /\ UNCHANGED cur
    /\ UNCHANGED <<dirs, files, dockerInstalled, now, cmd, rejected, pre, deleting>>
    /\ UNCHANGED <<server_name, config, inner, todo, ret, pending>>

(* Mutant of update_last_started: the entry's created_at is stamped as well. *)
update_last_started_stamps_created ==
    /\ pc = "update_last_started"
    /\ LET name == Unwrap(cur)
           loaded == load_server_config
           continue == IF todo \ {name} = {} THEN Finish("Ok") ELSE Goto("start_single_server")
       IN /\ todo' = todo \ {name}
          /\ IF loaded.err # "Ok"
             THEN Finish(loaded.err) /\ UNCHANGED <<dirs, files, log>>
             ELSE IF name \in DOMAIN loaded.servers
             THEN FsStep(save_server_config(
                             [loaded.servers EXCEPT ![name].last_started = Some(now),
                                                    ![name].created_at = now]),
                         "write", Resolve(WorkDir, config_path), continue)
             ELSE continue /\ UNCHANGED <<dirs, files, log>>
    /\ UNCHANGED <<running, dockerInstalled, now, cmd, rejected, pre, deleting>>
    /\ UNCHANGED <<server_name, config, inner, cur, ret, pending>>

update_last_started ==
    /\ pc = "update_last_started"
    /\ LET name == Unwrap(cur)
           loaded == load_server_config
           continue == IF todo \ {name} = {} THEN Finish("Ok") ELSE Goto("start_single_server")
       IN /\ todo' = todo \ {name}
          /\ IF loaded.err # "Ok"
             THEN Finish(loaded.err) /\ UNCHANGED <<dirs, files, log>>
             ELSE IF name \in DOMAIN loaded.servers
             THEN FsStep(save_server_config(
                             [loaded.servers EXCEPT ![name].last_started = Some(now)]),
                         "write", Resolve(WorkDir, config_path), continue)
             ELSE continue /\ UNCHANGED <<dirs, files, log>>
    /\ UNCHANGED <<running, dockerInstalled, now, cmd, rejected, pre, deleting>>
    /\ UNCHANGED <<server_name, config, inner, cur, ret, pending>>

(***************************************************************************)
(* stop_servers, stop_single_server                                        *)
(***************************************************************************)
stop_load ==
    /\ pc = "stop_load"
    /\ LET loaded == load_server_config
       IN IF loaded.err # "Ok"
          THEN Finish(loaded.err) /\ UNCHANGED <<inner, todo>>
          ELSE /\ inner' = Some(loaded.servers)
               /\ IF IsSome(server_name)
                  THEN IF Unwrap(server_name) \in DOMAIN loaded.servers
                       THEN todo' = {Unwrap(server_name)} /\ Goto("stop_single_server")
                       ELSE Finish("ServerNotFound") /\ UNCHANGED todo
                  ELSE IF DOMAIN loaded.servers = {}
                       THEN Finish("Ok") /\ UNCHANGED todo
                       ELSE todo' = DOMAIN loaded.servers /\ Goto("stop_single_server")
    /\ UNCHANGED <<dirs, files, running, dockerInstalled, now, cmd, log, rejected, pre, deleting>>
    /\ UNCHANGED <<server_name, config, cur, ret, pending>>

(* Mutant of stop_single_server: after a failed `down` the remaining servers *)
(* are still stopped.                                                         *)
stop_single_server_keeps_going ==
    /\ pc = "stop_single_server"
    /\ \E name \in todo :
         LET dir == Resolve(WorkDir, PathNew(Unwrap(inner)[name].data_path))
         IN \E o \in docker_compose("down", dir) :
              /\ log' = Append(log, Call("docker-compose", "down", dir, Some(name), o.status))
              /\ running' = o.running
              /\ todo' = todo \ {name}
              /\ IF todo \ {name} # {} THEN Goto("stop_single_server")
                 ELSE IF o.status # "success" THEN Finish(StatusError(o.status))
                 ELSE IF ret = "return" THEN Finish("Ok")
                 ELSE Goto(ret)
    /\ UNCHANGED <<dirs, files, dockerInstalled, now, cmd, rejected, pre, deleting>>
    /\ UNCHANGED <<server_name, config, inner, cur, ret, pending>>

(* Mutant of stop_single_server: a successful `down` is recorded in the *)
(* registry by clearing last_started.                                    *)
stop_single_server_persists ==
    /\ pc = "stop_single_server"
    /\ \E name \in todo :
         LET dir == Resolve(WorkDir, PathNew(Unwrap(inner)[name].data_path))
         IN \E o \in docker_compose("down", dir) :
              /\ log' = Append(log, Call("docker-compose", "down", dir, Some(name), o.status))
              /\ running' = o.running
              /\ todo' = todo \ {name}
              /\ IF o.status = "success"
                 THEN /\ files' = [files EXCEPT ![Resolve(WorkDir, config_path)] =
                                     to_string_pretty([Unwrap(inner) EXCEPT
                                                          ![name].last_started = None])]
                      /\ IF todo \ {name} # {} THEN Goto("stop_single_server")
                         ELSE IF ret = "return" THEN Finish("Ok")
                         ELSE Goto(ret)
                 ELSE Finish(StatusError(o.status)) /\ UNCHANGED files
    /\ UNCHANGED <<dirs, dockerInstalled, now, cmd, rejected, pre, deleting>>
    /\ UNCHANGED <<server_name, config, inner, cur, ret, pending>>

stop_single_server ==
    /\ pc = "stop_single_server"
    /\ \E name \in todo :
         LET dir == Resolve(WorkDir, PathNew(Unwrap(inner)[name].data_path))
         IN \E o \in docker_compose("down", dir) :
              /\ log' = Append(log, Call("docker-compose", "down", dir, Some(name), o.status))
              /\ running' = o.running
              /\ todo' = todo \ {name}
              /\ IF o.status = "success"
                 THEN IF todo \ {name} # {} THEN Goto("stop_single_server")
                      ELSE IF ret = "return" THEN Finish("Ok")
                      ELSE Goto(ret)
                 ELSE Finish(StatusError(o.status))
    /\ UNCHANGED <<dirs, files, dockerInstalled, now, cmd, rejected, pre, deleting>>
    /\ UNCHANGED <<server_name, config, inner, cur, ret, pending>>

(***************************************************************************)
(* remove_server                                                           *)
(***************************************************************************)
remove_load ==
    /\ pc = "remove_load"
    /\ LET loaded == load_server_config
       IN IF loaded.err # "Ok"
          THEN Finish(loaded.err) /\ UNCHANGED <<config, ret, log>>
          ELSE /\ config' = Some(loaded.servers)
               /\ IF Unwrap(server_name) \in DOMAIN loaded.servers
                  THEN IF Unwrap(cmd).force
                       THEN /\ ret' = "remove_dir"
                            /\ Goto("stop_load")
                            /\ UNCHANGED log
                       ELSE \E confirm \in BOOLEAN :
                              /\ log' = Append(log, Prompt("remove", confirm))
                              /\ IF confirm
                                 THEN ret' = "remove_dir" /\ Goto("stop_load")
                                 ELSE Finish("Ok") /\ UNCHANGED ret
                  ELSE Finish("ServerNotFound") /\ UNCHANGED <<ret, log>>
    /\ UNCHANGED <<dirs, files, running, dockerInstalled, now, cmd, rejected, pre, deleting>>
    /\ UNCHANGED <<server_name, inner, todo, cur, pending>>

(* Mutant of remove_dir: the result of fs::remove_dir_all is dropped. *)
remove_dir_error_ignored ==
    /\ pc = "remove_dir"
    /\ LET info == Unwrap(config)[Unwrap(server_name)]
           data_path == Resolve(WorkDir, PathNew(info.data_path))
       IN \E o \in remove_dir_all(data_path) :
            /\ dirs' = o.dirs
            /\ files' = o.files
            /\ log' = Append(log, FsOp("remove_dir_all", data_path, o.ok))
            /\ Goto("remove_save")
    /\ deleting' = deleting \cup {Unwrap(server_name)}
    /\ UNCHANGED <<running, dockerInstalled, now, cmd, rejected, pre>>
    /\ UNCHANGED localVars

remove_dir ==
    /\ pc = "remove_dir"
    /\ LET info == Unwrap(config)[Unwrap(server_name)]
           data_path == Resolve(WorkDir, PathNew(info.data_path))
       IN FsStep(remove_dir_all(data_path), "remove_dir_all", data_path, Goto("remove_save"))
    /\ deleting' = deleting \cup {Unwrap(server_name)}
    /\ UNCHANGED <<running, dockerInstalled, now, cmd, rejected, pre>>
    /\ UNCHANGED localVars

(* Mutant of remove_save: a fresh registry is saved instead of the loaded one. *)
remove_save_clears ==
    /\ pc = "remove_save"
    /\ config' = Some(EmptyServers)
    /\ FsStep(save_server_config(EmptyServers), "write", Resolve(WorkDir, config_path),
              Finish("Ok"))
    /\ deleting' = {n \in deleting : n \in DOMAIN load_from([dirs |-> dirs', files |-> files']).servers}
    /\ UNCHANGED <<running, dockerInstalled, now, cmd, rejected, pre>>
    /\ UNCHANGED <<server_name, inner, todo, cur, ret, pending>>

remove_save ==
    /\ pc = "remove_save"
    /\ LET old == Unwrap(config)
           servers == Restrict(old, DOMAIN old \ {Unwrap(server_name)})
       IN /\ config' = Some(servers)
          /\ FsStep(save_server_config(servers), "write", Resolve(WorkDir, config_path),
                    Finish("Ok"))
    /\ deleting' = {n \in deleting : n \in DOMAIN load_from([dirs |-> dirs', files |-> files']).servers}
    /\ UNCHANGED <<running, dockerInstalled, now, cmd, rejected, pre>>
    /\ UNCHANGED <<server_name, inner, todo, cur, ret, pending>>

(***************************************************************************)
(* backup_server                                                           *)
(***************************************************************************)
backup_server ==
    /\ pc = "backup_load"
    /\ LET loaded == load_server_config
           name == Unwrap(server_name)
       IN IF loaded.err # "Ok"
          THEN Finish(loaded.err) /\ UNCHANGED <<config, dirs, files, log>>
          ELSE /\ config' = Some(loaded.servers)
               /\ IF name \in DOMAIN loaded.servers
                  THEN LET dir == Resolve(WorkDir, PathNew(loaded.servers[name].data_path))
                           arg == to_string_lossy(backup_file_of(name, now))
                       IN \E o \in tar_create(dir, arg) :
                            /\ log' = Append(log, Call("tar", "-czf", dir, Some(arg), o.status))
                            /\ dirs' = o.dirs
                            /\ files' = o.files
                            /\ IF o.status = "success" THEN Finish("Ok")
                               ELSE Finish(StatusError(o.status))
                  ELSE Finish("ServerNotFound") /\ UNCHANGED <<dirs, files, log>>
    /\ UNCHANGED <<running, dockerInstalled, now, cmd, rejected, pre, deleting>>
    /\ UNCHANGED <<server_name, inner, todo, cur, ret, pending>>

(***************************************************************************)
(* restore_server                                                          *)
(***************************************************************************)
(* Mutant of restore_load: the archive is not looked for before the stop. *)
restore_load_no_exists_check ==
    /\ pc = "restore_load"
    /\ LET loaded == load_server_config
       IN IF loaded.err # "Ok"
          THEN Finish(loaded.err) /\ UNCHANGED <<config, ret>>
          ELSE /\ config' = Some(loaded.servers)
               /\ IF Unwrap(server_name) \in DOMAIN loaded.servers
                  THEN ret' = "restore_extract" /\ Goto("stop_load")
                  ELSE Finish("ServerNotFound") /\ UNCHANGED ret
    /\ UNCHANGED <<dirs, files, running, dockerInstalled, now, cmd, log, rejected, pre, deleting>>
    /\ UNCHANGED <<server_name, inner, todo, cur, pending>>

(* Mutant of restore_load: the server is not stopped before the extraction. *)
restore_load_skips_stop ==
    /\ pc = "restore_load"
    /\ LET loaded == load_server_config
           backup_path == PathNew(Unwrap(Unwrap(cmd).path))
       IN IF loaded.err # "Ok"
          THEN Finish(loaded.err) /\ UNCHANGED <<config, ret>>
          ELSE /\ config' = Some(loaded.servers)
               /\ IF Unwrap(server_name) \in DOMAIN loaded.servers
                  THEN IF ~PathExists(Resolve(WorkDir, backup_path))
                       THEN Finish("IoNotFound") /\ UNCHANGED ret
                       ELSE Goto("restore_extract") /\ UNCHANGED ret
                  ELSE Finish("ServerNotFound") /\ UNCHANGED ret
    /\ UNCHANGED <<dirs, files, running, dockerInstalled, now, cmd, log, rejected, pre, deleting>>
    /\ UNCHANGED <<server_name, inner, todo, cur, pending>>

restore_load ==
    /\ pc = "restore_load"
    /\ LET loaded == load_server_config
           backup_path == PathNew(Unwrap(Unwrap(cmd).path))
       IN IF loaded.err # "Ok"
          THEN Finish(loaded.err) /\ UNCHANGED <<config, ret>>
          ELSE /\ config' = Some(loaded.servers)
               /\ IF Unwrap(server_name) \in DOMAIN loaded.servers
                  THEN IF ~PathExists(Resolve(WorkDir, backup_path))
                       THEN Finish("IoNotFound") /\ UNCHANGED ret
                       ELSE ret' = "restore_extract" /\ Goto("stop_load")
                  ELSE Finish("ServerNotFound") /\ UNCHANGED ret
    /\ UNCHANGED <<dirs, files, running, dockerInstalled, now, cmd, log, rejected, pre, deleting>>
    /\ UNCHANGED <<server_name, inner, todo, cur, pending>>

restore_extract ==
    /\ pc = "restore_extract"
    /\ LET info == Unwrap(config)[Unwrap(server_name)]
           dir == Resolve(WorkDir, PathNew(info.data_path))
           arg == to_string_lossy(PathNew(Unwrap(Unwrap(cmd).path)))
       IN \E o \in tar_extract(dir, arg) :
            /\ log' = Append(log, Call("tar", "-xzf", dir, Some(arg), o.status))
            /\ dirs' = o.dirs
            /\ files' = o.files
            /\ IF o.status = "success" THEN Goto("restore_confirm_start")
               ELSE Finish(StatusError(o.status))
    /\ UNCHANGED <<running, dockerInstalled, now, cmd, rejected, pre, deleting>>
    /\ UNCHANGED localVars

restore_confirm_start ==
    /\ pc = "restore_confirm_start"
    /\ \E yes \in BOOLEAN :
         /\ log' = Append(log, Prompt("start_now", yes))
         /\ IF yes THEN Goto("start_load") ELSE Finish("Ok")
    /\ UNCHANGED <<dirs, files, running, dockerInstalled, now, cmd, rejected, pre, deleting>>
    /\ UNCHANGED localVars

(***************************************************************************)
(* list_servers, get_server_status                                         *)
(* `docker ps -q -f name=<filter>` prints the ids of the running           *)
(* containers whose name contains the filter; its exit status is not       *)
(* looked at, only a failure to spawn it is returned.                      *)
(***************************************************************************)
Contains(hay, needle) ==
    \E i \in 1..(Len(hay) - Len(needle) + 1) : SubSeq(hay, i, i + Len(needle) - 1) = needle

docker_ps(filter) ==
    {[status |-> "success", stdout |-> {c \in running : Contains(c, filter)}],
     [status |-> "nonzero", stdout |-> {}],
     [status |-> "spawn_failed", stdout |-> {}]}

PsCall(filter, o) ==
    [prog |-> "docker", sub |-> "ps", cwd |-> WorkDir, arg |-> Some(filter),
     status |-> o.status, stdout |-> o.stdout]

Println(name, text) == Call("println", name, <<>>, Some(text), "success")

list_servers ==
    /\ pc = "list_load"
    /\ LET loaded == load_server_config
       IN IF loaded.err # "Ok"
          THEN Finish(loaded.err) /\ UNCHANGED <<inner, todo>>
          ELSE /\ inner' = Some(loaded.servers)
               /\ IF DOMAIN loaded.servers = {}
                  THEN Finish("Ok") /\ UNCHANGED todo
                  ELSE todo' = DOMAIN loaded.servers /\ Goto("get_server_status")
    /\ UNCHANGED <<dirs, files, running, dockerInstalled, now, cmd, log, rejected, pre, deleting>>
    /\ UNCHANGED <<server_name, config, cur, ret, pending>>

get_server_status ==
    /\ pc = "get_server_status"
    /\ \E name \in todo :
         LET filter == container_name_of(name)
         IN \E o \in docker_ps(filter) :
              /\ todo' = todo \ {name}
              /\ IF o.status = "spawn_failed"
                 THEN /\ log' = Append(log, PsCall(filter, o))
                      /\ Finish("Io")
                 ELSE /\ log' = log \o <<PsCall(filter, o),
                                         Println(name, IF o.stdout # {} THEN "RUNNING"
                                                       ELSE "STOPPED")>>
                      /\ IF todo \ {name} = {} THEN Finish("Ok")
                         ELSE Goto("get_server_status")
    /\ UNCHANGED <<dirs, files, running, dockerInstalled, now, cmd, rejected, pre, deleting>>
    /\ UNCHANGED <<server_name, config, inner, cur, ret, pending>>

(***************************************************************************)
(* The specification.                                                      *)
(***************************************************************************)
Next ==
    \/ Invoke
    \/ ensure_config_dir
    \/ ensure_backup_dir
    \/ ensure_save
    \/ check_docker_installed
    \/ install_docker
    \/ create_prompt
    \/ create_load
    \/ create_dir
    \/ create_compose
    \/ create_save
    \/ create_confirm_start
    \/ start_load
    \/ start_single_server
    \/ update_last_started
    \/ stop_load
    \/ stop_single_server
    \/ remove_load
    \/ remove_dir
    \/ remove_save
    \/ backup_server
    \/ restore_load
    \/ restore_extract
    \/ restore_confirm_start
    \/ list_servers
    \/ get_server_status
    \/ Return

Spec == Init /\ [][Next]_vars

(***************************************************************************)
(* Vocabulary of the properties.                                           *)
(***************************************************************************)
Pre == Unwrap(pre)

PreLoad == load_from(Pre)

PreRegistry == PreLoad.servers

Op == IF IsSome(cmd) THEN Unwrap(cmd).op ELSE "none"

Name == Unwrap(server_name)

DataDir(info) == Resolve(WorkDir, PathNew(info.data_path))

Failure == {"nonzero", "spawn_failed", "failed"}

LogHas(prog, sub, statuses) ==
    \E i \in 1..Len(log) :
        log[i].prog = prog /\ log[i].sub = sub /\ log[i].status \in statuses

LogHasAt(prog, sub, where, statuses) ==
    \E i \in 1..Len(log) :
        /\ log[i].prog = prog /\ log[i].sub = sub
        /\ log[i].cwd = where /\ log[i].status \in statuses

ComposeFileOf(name) == Resolve(WorkDir, PathJoin(data_path_of(name), COMPOSE_FILE))

HoldsDescriptorFile(dir) == dir \in dirs /\ compose_path_in(dir) \in DOMAIN files

(***************************************************************************)
(* C1 (as stated): between commands, whatever step failed, every name of   *)
(* the persisted registry has a data directory holding a descriptor file.  *)
(* Refuted: remove deletes the directory and then fails to save.           *)
(***************************************************************************)
C1_Original ==
    pc = "idle" => \A n \in Registered : HoldsDescriptorFile(DataDir(Registry[n]))

(***************************************************************************)
(* C1 (amended): in every reachable state, every name of the persisted     *)
(* registry has a data directory holding a descriptor file, except a name  *)
(* whose directory remove_server has set out to delete while the registry  *)
(* still holds its entry.                                                  *)
(***************************************************************************)
C1_RegistryHasDescriptor ==
    \A n \in Registered \ deleting : HoldsDescriptorFile(DataDir(Registry[n]))

C1_Witness ==
    /\ pc = "done"
    /\ Registered \ deleting # {}
    /\ \E i \in 1..Len(log) : log[i].status \in Failure /\ log[i].prog # "docker"

(***************************************************************************)
(* C2 (as stated): a remove of a registered server whose `down` exits      *)
(* non-zero still deletes the data directory and the registry entry and    *)
(* returns success.  Refuted: stop_servers(..)? returns the error.         *)
(***************************************************************************)
C2_RemoveProceedsAfterStopFailure ==
    (/\ pc = "done"
     /\ Op = "remove"
     /\ LogHas("docker-compose", "down", {"nonzero"}))
    => /\ result = Some("Ok")
       /\ Name \notin Registered
       /\ ~PathExists(DataDir(PreRegistry[Name]))

(***************************************************************************)
(* C3 (as stated): a restore of a registered server from an existing       *)
(* archive still runs the extraction when `down` exits non-zero, and does  *)
(* not return the stop failure.  Refuted the same way.                     *)
(***************************************************************************)
C3_RestoreExtractsAfterStopFailure ==
    (/\ pc = "done"
     /\ Op = "restore"
     /\ LogHas("docker-compose", "down", {"nonzero"}))
    => /\ LogHas("tar", "-xzf", {"success", "nonzero", "spawn_failed"})
       /\ result # Some("DockerCommandFailed")

(***************************************************************************)
(* C4: a start command in which an `up` fails.                             *)
(***************************************************************************)
UpFailed == LogHas("docker-compose", "up", {"nonzero", "spawn_failed"})

StartedOk ==
    {Unwrap(log[i].arg) : i \in {j \in 1..Len(log) :
         log[j].prog = "docker-compose" /\ log[j].sub = "up" /\ log[j].status = "success"}}

(***************************************************************************)
(* C4 (as stated): when an `up` fails in start(name) or start(all), the    *)
(* command returns that error and the persisted registry is identical to   *)
(* the one before the command.  Refuted by start(all): a server started    *)
(* before the failing one has its last_started saved already.              *)
(***************************************************************************)
C4_Original ==
    (pc = "done" /\ Op = "start" /\ UpFailed)
    => /\ result = Some(StatusError(log[Len(log)].status))
       /\ load_server_config = PreLoad

(***************************************************************************)
(* C4 (amended): when an `up` fails in start(name) or start(all), the      *)
(* command returns that error; the registry keeps its names, the entry of  *)
(* the failing server and of every server not started earlier in the same  *)
(* command is identical to before, and a server started earlier in the     *)
(* command differs at most in last_started.  For start(name) the registry  *)
(* is identical to before.                                                 *)
(***************************************************************************)
C4_StartFailureKeepsTimestamps ==
    (pc = "done" /\ Op = "start" /\ UpFailed)
    => /\ result = Some(StatusError(log[Len(log)].status))
       /\ load_server_config.err = "Ok"
       /\ Registered = DOMAIN PreRegistry
       /\ \A n \in Registered :
            IF n \in StartedOk
            THEN [Registry[n] EXCEPT !.last_started = None]
                    = [PreRegistry[n] EXCEPT !.last_started = None]
            ELSE Registry[n] = PreRegistry[n]
       /\ Unwrap(log[Len(log)].arg) \notin StartedOk
       /\ IsSome(Unwrap(cmd).name) => load_server_config = PreLoad

C4_Witness ==
    /\ pc = "done"
    /\ Op = "start"
    /\ UpFailed
    /\ \E n \in StartedOk : Registry[n].last_started = Some(now)

(***************************************************************************)
(* C5 (as stated): a create that was given a name with a character other   *)
(* than alphanumeric, hyphen or underscore returns InvalidServerName,      *)
(* with no directory, descriptor or registry entry written for that name.  *)
(* Refuted in its first half: the validator of the prompt refuses the      *)
(* input and the prompt asks again; InvalidServerName is never built.      *)
(***************************************************************************)
C5_InvalidNameIsAnError ==
    (pc = "done" /\ Op = "create" /\ rejected # {})
    => /\ result = Some("InvalidServerName")
       /\ \A r \in rejected :
            /\ r \notin Registered
            /\ ~PathExists(Resolve(WorkDir, data_path_of(r)))

(***************************************************************************)
(* C6: a create whose name is already a key of the registry fails with     *)
(* ServerExists, and directories and files (registry file, data            *)
(* directory, descriptor) are exactly as before the command.               *)
(***************************************************************************)
C6_CreateExistingFails ==
    (/\ Op = "create"
     /\ IsSome(server_name)
     /\ PreLoad.err = "Ok"
     /\ Name \in DOMAIN PreRegistry)
    => /\ dirs = Pre.dirs
       /\ files = Pre.files
       /\ pc \in {"create_load", "done"}
       /\ pc = "done" => result = Some("ServerExists")

C6_Witness ==
    /\ pc = "done"
    /\ Op = "create"
    /\ result = Some("ServerExists")
    /\ HasDescriptor(DataDir(Registry[Name]))

(***************************************************************************)
(* C7: in remove, the registry entry goes only after the data directory    *)
(* is gone: no state of a remove has the entry missing from the persisted  *)
(* registry while the directory exists, and when the directory deletion    *)
(* fails the command fails with the entry still registered.                *)
(***************************************************************************)
C7_EntryRemovedAfterDirectory ==
    (/\ Op = "remove"
     /\ IsSome(server_name)
     /\ PreLoad.err = "Ok"
     /\ Name \in DOMAIN PreRegistry)
    => /\ Name \notin Registered => ~PathExists(DataDir(PreRegistry[Name]))
       /\ LogHas("fs", "remove_dir_all", {"failed"})
            => /\ pc = "done"
               /\ result = Some("Io")
               /\ Name \in Registered
               /\ Registry = PreRegistry

C7_Witness ==
    /\ pc = "done"
    /\ Op = "remove"
    /\ LogHas("fs", "remove_dir_all", {"failed"})
    /\ PathExists(DataDir(Registry[Name]))

(***************************************************************************)
(* C8: in create, the descriptor is on disk before the registry entry is   *)
(* committed: whenever the persisted registry holds the new name, its data *)
(* directory holds the generated descriptor; and when the descriptor       *)
(* write fails the registry is left as it was.                             *)
(***************************************************************************)
C8_DescriptorBeforeRegistry ==
    (Op = "create" /\ IsSome(server_name))
    => /\ (Name \in Registered /\ Name \notin DOMAIN PreRegistry)
            => /\ HasDescriptor(Resolve(WorkDir, data_path_of(Name)))
               /\ files[ComposeFileOf(Name)]
                    = to_yaml(compose_config_of(Name, Unwrap(pending)))
       /\ LogHasAt("fs", "write", ComposeFileOf(Name), {"failed"})
            => /\ pc = "done"
               /\ result = Some("Io")
               /\ load_server_config = PreLoad

C8_Witness ==
    /\ pc = "create_confirm_start"
    /\ Op = "create"
    /\ Name \in Registered
    /\ Name \notin DOMAIN PreRegistry

(***************************************************************************)
(* C9: after a remove of a registered name that went ahead (forced or      *)
(* confirmed) returned success, the loaded registry has no entry for the   *)
(* name, the data path does not exist, and every other entry is as before. *)
(***************************************************************************)
RemoveWentAhead == Unwrap(cmd).force \/ LogHas("prompt", "remove", {"yes"})

C10_StartUnknownName ==
    (/\ pc = "done"
     /\ Op = "start"
     /\ IsSome(server_name)
     /\ PreLoad.err = "Ok"
     /\ Name \notin DOMAIN PreRegistry)
    => /\ result = Some("ServerNotFound")
       /\ \A i \in 1..Len(log) : log[i].prog \notin {"docker-compose", "tar"}
       /\ load_server_config = PreLoad
       /\ running = Pre.running

C10_Witness ==
    /\ pc = "done"
    /\ Op = "start"
    /\ result = Some("ServerNotFound")
    /\ Registered # {}

(***************************************************************************)
(* C11: a restore of a registered name whose archive path does not exist   *)
(* returns the not-found error; no docker-compose process (no down, no up) *)
(* and no tar process was spawned, and directories, files and running      *)
(* containers are as they were when the command was given.                 *)
(***************************************************************************)
PreExists(a) == a \in Pre.dirs \/ a \in DOMAIN Pre.files

ArchiveOfCommand == Resolve(WorkDir, PathNew(Unwrap(Unwrap(cmd).path)))

C11_RestoreMissingArchive ==
    (/\ pc = "done"
     /\ Op = "restore"
     /\ IsSome(server_name)
     /\ PreLoad.err = "Ok"
     /\ Name \in DOMAIN PreRegistry
     /\ ~PreExists(ArchiveOfCommand))
    => /\ result = Some("IoNotFound")
       /\ \A i \in 1..Len(log) : log[i].prog \notin {"docker-compose", "tar"}
       /\ dirs = Pre.dirs
       /\ files = Pre.files
       /\ running = Pre.running

C11_Witness ==
    /\ pc = "done"
    /\ Op = "restore"
    /\ IsSome(server_name)
    /\ Name \in DOMAIN PreRegistry
    /\ ~PreExists(ArchiveOfCommand)
    /\ result = Some("IoNotFound")
    /\ running # {}

(***************************************************************************)
(* C12: in every step, a name that is in the loaded registry before and    *)
(* after the step keeps every field of its entry other than last_started;  *)
(* a name enters the registry only by the save of create, with the entry   *)
(* create built; and last_started of an entry changes only in the          *)
(* update_last_started step of a run of start (the start command, or the   *)
(* start chained from create or restore) that directly follows a           *)
(* successful `up` of that same server.                                    *)
(***************************************************************************)
WithoutLastStarted(info) == [info EXCEPT !.last_started = None]

LastCallIsUpOf(n) ==
    /\ log # <<>>
    /\ log[Len(log)].prog = "docker-compose"
    /\ log[Len(log)].sub = "up"
    /\ log[Len(log)].arg = Some(n)
    /\ log[Len(log)].cwd = DataDir(Registry[n])
    /\ log[Len(log)].status = "success"

C12_EntryFrame ==
    [][/\ \A n \in Registered \cap Registered' :
            /\ WithoutLastStarted(Registry'[n]) = WithoutLastStarted(Registry[n])
            /\ Registry'[n].last_started # Registry[n].last_started
                 => /\ pc = "update_last_started"
                    /\ cur = Some(n)
                    /\ LastCallIsUpOf(n)
       /\ \A n \in Registered' \ Registered :
            /\ pc = "create_save"
            /\ server_name = Some(n)
            /\ Registry'[n] = server_info_of(n, Unwrap(pending))]_vars

C12_Witness ==
    /\ Op = "start"
    /\ pc = "done"
    /\ \E n \in Registered :
         /\ Registry[n].last_started = Some(now)
         /\ Registry[n].created_at < now
         /\ n \in DOMAIN PreRegistry
         /\ PreRegistry[n].last_started # Some(now)
         /\ IsSome(Registry[n].java_args)

(***************************************************************************)
(* C13: a failed step of a workflow (a docker-compose or tar process that  *)
(* did not succeed, or a failed filesystem operation), other than the      *)
(* `down` inside remove and restore, is the last thing the command did:    *)
(* the command has returned an error and nothing was spawned or written    *)
(* after it.  A backup or restore of a name that is not registered spawns  *)
(* no tar process.                                                         *)
(***************************************************************************)
IsWorkflowStep(e) == e.prog \in {"docker-compose", "tar", "fs"}

IsStopInsideRemoveOrRestore(e) ==
    e.prog = "docker-compose" /\ e.sub = "down" /\ Op \in {"remove", "restore"}

C13_FirstFailureAborts ==
    /\ \A i \in 1..Len(log) :
         (/\ IsWorkflowStep(log[i])
          /\ log[i].status \in Failure
          /\ ~IsStopInsideRemoveOrRestore(log[i]))
         => /\ i = Len(log)
            /\ pc = "done"
            /\ result \notin {None, Some("Ok")}
    /\ (/\ Op \in {"backup", "restore"}
        /\ IsSome(server_name)
        /\ PreLoad.err = "Ok"
        /\ Name \notin DOMAIN PreRegistry)
       => \A i \in 1..Len(log) : log[i].prog # "tar"

C13_Witness ==
    /\ pc = "done"
    /\ Op = "stop"
    /\ Unwrap(cmd).name = None
    /\ log[Len(log)].sub = "down"
    /\ log[Len(log)].status \in Failure
    /\ todo # {}
    /\ \A n \in todo : ~LogHasAt("docker-compose", "down", DataDir(Registry[n]),
                                 {"success"} \cup Failure)

(***************************************************************************)
(* C14: once the EULA prompt of create, or the confirmation prompt of      *)
(* remove, was answered no, the command has returned success and the       *)
(* prompt is the last thing it did: directories and files are those main   *)
(* handed to the handler (the state before the command, with the config    *)
(* directory, backup directory and empty registry added when main found no *)
(* config directory), the loaded registry and the running containers are   *)
(* as before the command, and no docker-compose or tar process was         *)
(* spawned.                                                                *)
(***************************************************************************)
Declined ==
    \/ Op = "create" /\ LogHas("prompt", "eula", {"no"})
    \/ Op = "remove" /\ LogHas("prompt", "remove", {"no"})

ConfigDirPath == Resolve(WorkDir, PathNew(CONFIG_DIR))

BackupDirPath == Resolve(WorkDir, PathJoin(PathNew(CONFIG_DIR), BACKUP_DIR))

AfterBootstrap ==
    IF PreExists(ConfigDirPath)
    THEN [dirs |-> Pre.dirs, files |-> Pre.files]
    ELSE [dirs |-> Pre.dirs \cup {ConfigDirPath, BackupDirPath},
          files |-> (Resolve(WorkDir, config_path) :> to_string_pretty(EmptyServers))
                    @@ Pre.files]

C14_DeclineChangesNothing ==
    Declined
    => /\ pc = "done"
       /\ result = Some("Ok")
       /\ log[Len(log)].prog = "prompt"
       /\ log[Len(log)].status = "no"
       /\ dirs = AfterBootstrap.dirs
       /\ files = AfterBootstrap.files
       /\ load_server_config = PreLoad
       /\ running = Pre.running
       /\ \A i \in 1..Len(log) : log[i].prog \notin {"docker-compose", "tar"}

C14_Witness ==
    /\ Declined
    /\ Op = "remove"
    /\ ~Unwrap(cmd).force
    /\ running # {}

C14_WitnessEula ==
    /\ Declined
    /\ Op = "create"
    /\ Registered # {}

(***************************************************************************)
(* C15: from the moment main hands a stop command (one name or all) or a   *)
(* list command to its handler, the registry file, and every other file    *)
(* and directory, stays as main handed it over, and the loaded registry is *)
(* the one from before the command, whatever the outcomes of the `down`    *)
(* and `docker ps` processes.                                              *)
(***************************************************************************)
Dispatched ==
    \/ LogHas("docker", "--version", {"success"})
    \/ LogHas("sh", "-c", {"success"})

C15_StateNotPersisted ==
    (Dispatched /\ Op \in {"stop", "list"})
    => /\ files = AfterBootstrap.files
       /\ dirs = AfterBootstrap.dirs
       /\ load_server_config = PreLoad

C15_Witness ==
    /\ pc = "done"
    /\ Op = "stop"
    /\ Unwrap(cmd).name = None
    /\ LogHas("docker-compose", "down", {"success"})
    /\ LogHas("docker-compose", "down", Failure)
    /\ running # Pre.running
    /\ \E n \in Registered : IsSome(Registry[n].last_started)

C15_WitnessList ==
    /\ pc = "done"
    /\ Op = "list"
    /\ \E i \in 1..Len(log) :
         log[i].prog = "println" /\ log[i].arg = Some("RUNNING")
    /\ LogHas("docker", "ps", {"nonzero"})

(***************************************************************************)
(* C16: the data paths of distinct registry entries are distinct; no       *)
(* registered data path equals or contains the backup directory or the     *)
(* registry file; and a remove command leaves the backup directory and     *)
(* everything that was in it in place.                                     *)
(***************************************************************************)
C16_DataPathsExclusive ==
    /\ \A n \in Registered, m \in Registered :
         n # m => DataDir(Registry[n]) # DataDir(Registry[m])
    /\ \A n \in Registered :
         /\ ~IsPrefix(DataDir(Registry[n]), BackupDirPath)
         /\ ~IsPrefix(DataDir(Registry[n]), Resolve(WorkDir, config_path))
    /\ (Op = "remove" /\ BackupDirPath \in Pre.dirs)
       => /\ BackupDirPath \in dirs
          /\ \A f \in DOMAIN Pre.files : IsPrefix(BackupDirPath, f) => f \in DOMAIN files

(***************************************************************************)
(* C17: the destination backup hands to tar, resolved against the          *)
(* directory tar is run in, is the file <name>_<timestamp>.tar.gz of the   *)
(* backup directory under the config directory; and when tar succeeded     *)
(* that file is an archive, and the registry file and the files of the     *)
(* data directory are as before the command.                               *)
(***************************************************************************)
C17_BackupDestination ==
    \A i \in 1..Len(log) :
        (log[i].prog = "tar" /\ log[i].sub = "-czf")
        => /\ log[i].cwd = DataDir(PreRegistry[Name])
           /\ Resolve(log[i].cwd, PathNew(Unwrap(log[i].arg)))
                = BackupDirPath \o <<Name \o <<"_">> \o format_timestamp(now) \o TarGzSuffix>>
           /\ log[i].status = "success"
                => /\ BackupDirPath \o <<Name \o <<"_">> \o format_timestamp(now) \o TarGzSuffix>>
                        \in DOMAIN files
                   /\ load_server_config = PreLoad
                   /\ \A f \in DOMAIN Pre.files :
                        IsPrefix(DataDir(PreRegistry[Name]), f)
                        => f \in DOMAIN files /\ files[f] = Pre.files[f]

(***************************************************************************)
(* The Descriptor Generator on its own: create_server, in a fresh working  *)
(* directory, has collected a name and any combination of answers, the     *)
(* EULA was accepted and the data directory made; it writes the descriptor *)
(* and saves the registry.                                                 *)
(***************************************************************************)
VersionChoices == {"LATEST", "1.20.2"}

LoaderVersionChoices == {"RECOMMENDED", "47.1.0"}

MemoryChoices == {"2G", "4G"}

PortChoices == {"25565", "25570"}

AllPromptAnswers ==
    {[server_type |-> server_types[i],
      version |-> v,
      mod_loader |-> mod_loader_of(server_types[i]),
      mod_loader_version |-> IF IsSome(mod_loader_of(server_types[i]))
                             THEN Some(lv) ELSE None,
      memory |-> m,
      port |-> p,
      java_args |-> j] :
        i \in 1..Len(server_types), v \in VersionChoices, lv \in LoaderVersionChoices,
        m \in MemoryChoices, p \in PortChoices, j \in JavaArgChoices}

InitDescriptor ==
    \E name \in ValidNames, p \in AllPromptAnswers :
        LET data_path == Resolve(WorkDir, data_path_of(name))
            archive == Resolve(WorkDir, PathNew(UserArchive)) :> UserArchiveContent
        IN /\ dirs = Prefixes(WorkDir) \cup {ConfigDirPath, BackupDirPath, data_path}
           /\ files = (Resolve(WorkDir, config_path) :> to_string_pretty(EmptyServers))
                      @@ archive
           /\ running = {}
           /\ dockerInstalled = TRUE
           /\ now = 1
           /\ pc = "create_compose"
           /\ cmd = Some([op |-> "create", name |-> None, force |-> FALSE, path |-> None])
           /\ server_name = Some(name)
           /\ result = None
           /\ config = Some(EmptyServers)
           /\ inner = None
           /\ todo = {}
           /\ cur = None
           /\ ret = "return"
           /\ pending = Some(p)
           /\ log = <<FsOp("create_dir_all", ConfigDirPath, TRUE),
                      FsOp("create_dir_all", BackupDirPath, TRUE),
                      FsOp("write", Resolve(WorkDir, config_path), TRUE),
                      Call("docker", "--version", WorkDir, None, "success"),
                      Prompt("eula", TRUE),
                      FsOp("create_dir_all", data_path, TRUE)>>
           /\ rejected = {}
           /\ pre = Some([dirs |-> Prefixes(WorkDir), files |-> archive, running |-> {}])
           /\ deleting = {}

NextDescriptor ==
    \/ create_compose
    \/ create_save

SpecDescriptor == InitDescriptor /\ [][NextDescriptor]_vars

(***************************************************************************)
(* C18: once create has written the descriptor, its service entry for the  *)
(* server has the environment list EULA=TRUE, MEMORY, VERSION and TYPE of  *)
(* the answers; then, when a mod loader is set, TYPE=<loader> and          *)
(* FORGE_VERSION (for FORGE) or FABRIC_VERSION (for FABRIC); then, when    *)
(* java args were given, JVM_OPTS; the port mapping is <port>:25565 and    *)
(* the container name is mc-<name>.                                        *)
(***************************************************************************)
ExpectedEnvironment(p) ==
    << <<"EULA", "TRUE">>, <<"MEMORY", p.memory>>, <<"VERSION", p.version>>,
       <<"TYPE", p.server_type>> >>
    \o (IF p.server_type = "FORGE"
        THEN << <<"TYPE", "FORGE">>, <<"FORGE_VERSION", Unwrap(p.mod_loader_version)>> >>
        ELSE IF p.server_type = "FABRIC"
        THEN << <<"TYPE", "FABRIC">>, <<"FABRIC_VERSION", Unwrap(p.mod_loader_version)>> >>
        ELSE << >>)
    \o (IF p.java_args = None THEN << >> ELSE << <<"JVM_OPTS", p.java_args[1]>> >>)

DescriptorWritten ==
    /\ Op = "create"
    /\ IsSome(server_name)
    /\ LogHasAt("fs", "write", ComposeFileOf(Name), {"success"})

C18_DescriptorContent ==
    DescriptorWritten
    => /\ ComposeFileOf(Name) \in DOMAIN files
       /\ files[ComposeFileOf(Name)].kind = "yaml"
       /\ LET service == files[ComposeFileOf(Name)].doc.services[Name]
          IN /\ service.environment = ExpectedEnvironment(Unwrap(pending))
             /\ service.ports = << <<Unwrap(pending).port, "25565">> >>
             /\ service.container_name = <<"m", "c", "-">> \o Name

C18_Witness ==
    /\ DescriptorWritten
    /\ Unwrap(pending).server_type = "FABRIC"
    /\ Unwrap(pending).mod_loader_version = Some("47.1.0")
    /\ IsSome(Unwrap(pending).java_args)
    /\ Unwrap(pending).port = "25570"
    /\ Name \in Registered

(***************************************************************************)
(* C19: every `tar -xzf` of a restore command is preceded, in the same     *)
(* command, by a `docker-compose down` for that server run in the same     *)
(* data directory; and when restore is about to run the extraction, or has *)
(* just run it, the container of that server is not running.               *)
(***************************************************************************)
IsExtraction(e) == e.prog = "tar" /\ e.sub = "-xzf"

C19_ExtractAfterDown ==
    /\ \A i \in 1..Len(log) :
         IsExtraction(log[i])
         => \E j \in 1..(i - 1) :
              /\ log[j].prog = "docker-compose"
              /\ log[j].sub = "down"
              /\ log[j].arg = Some(Name)
              /\ log[j].cwd = log[i].cwd
    /\ (pc = "restore_extract" \/ (log # <<>> /\ IsExtraction(log[Len(log)])))
       => container_name_of(Name) \notin running

C19_Witness ==
    /\ Op = "restore"
    /\ log # <<>>
    /\ IsExtraction(log[Len(log)])
    /\ log[Len(log)].status = "success"
    /\ container_name_of(Name) \in Pre.running

(***************************************************************************)
(* C20: a forced remove of a name whose entry is in the registry while its *)
(* data path does not exist returns success, and the loaded registry no    *)
(* longer has the name.                                                    *)
(***************************************************************************)
Dangling(n) ==
    /\ PreLoad.err = "Ok"
    /\ n \in DOMAIN PreRegistry
    /\ ~PreExists(DataDir(PreRegistry[n]))

C20_DanglingEntryRemovable ==
    (/\ pc = "done"
     /\ Op = "remove"
     /\ Unwrap(cmd).force
     /\ IsSome(server_name)
     /\ Dangling(Name))
    => /\ result = Some("Ok")
       /\ Name \notin Registered

(***************************************************************************)
(* C21: every status list prints from a `docker ps` that ran successfully  *)
(* is RUNNING exactly when the container mc-<name> of that very server is  *)
(* running; a running container of another server does not make it        *)
(* RUNNING.                                                                *)
(***************************************************************************)
C21_StatusOfOwnContainer ==
    Op = "list"
    => \A i \in 2..Len(log) :
         (log[i].prog = "println" /\ log[i - 1].status = "success")
         => (log[i].arg = Some("RUNNING") <=> container_name_of(log[i].sub) \in running)

(***************************************************************************)
(* Two invocations of the tool that overlap in time, in a working          *)
(* directory where the tool has run before.  Each invocation is a process  *)
(* of its own: pc, cmd, server_name, result and the handler's locals are   *)
(* functions of the process; the filesystem and the containers are         *)
(* shared.  A step is one access to the shared state: one filesystem       *)
(* operation or one external process.  fs::write is two accesses: it       *)
(* opens the file, which empties it, and then writes the content; when     *)
(* another invocation wrote the file in between, the bytes of the two      *)
(* writes overlay and the file holds either this content or no JSON        *)
(* document at all.  The descriptor, one file per server, is written in    *)
(* one step.  The log keeps, in the order they happened, the docker probe  *)
(* of each invocation and every read and write of the registry file.       *)
(***************************************************************************)
Procs == {1, 2}

ByProc(self, e) == e @@ [proc |-> self]

FinishBy(self, r) ==
    /\ pc' = [pc EXCEPT ![self] = "done"]
    /\ result' = [result EXCEPT ![self] = Some(r)]

GotoBy(self, label) ==
    /\ pc' = [pc EXCEPT ![self] = label]
    /\ UNCHANGED result

Garbled == [kind |-> "garbled"]

ConcurrentCommands ==
    {[op |-> "create", name |-> None, force |-> FALSE, path |-> None]}
    \cup {[op |-> "start", name |-> n, force |-> FALSE, path |-> None] :
            n \in {None} \cup {Some(x) : x \in ValidNames}}

FirstAnswers ==
    CHOOSE p \in PromptAnswers : p.server_type = "VANILLA" /\ p.java_args = None

EarlierServer(name) == [server_info_of(name, FirstAnswers) EXCEPT !.created_at = 0]

InitConcurrent ==
    \E earlier \in SUBSET ValidNames :
        LET data_paths == {Resolve(WorkDir, data_path_of(n)) : n \in earlier}
            servers == [n \in earlier |-> EarlierServer(n)]
        IN /\ now = 1
           /\ dirs = Prefixes(WorkDir) \cup {ConfigDirPath, BackupDirPath} \cup data_paths
           /\ files = (Resolve(WorkDir, config_path) :> to_string_pretty(servers))
                      @@ [f \in {ComposeFileOf(n) : n \in earlier} |->
                            to_yaml(compose_config_of(
                                CHOOSE n \in earlier : ComposeFileOf(n) = f, FirstAnswers))]
                      @@ (Resolve(WorkDir, PathNew(UserArchive)) :> UserArchiveContent)
           /\ running = {}
           /\ dockerInstalled = TRUE
           /\ pc = [p \in Procs |-> "idle"]
           /\ cmd = [p \in Procs |-> None]
           /\ server_name = [p \in Procs |-> None]
           /\ result = [p \in Procs |-> None]
           /\ config = [p \in Procs |-> None]
           /\ inner = [p \in Procs |-> None]
           /\ todo = [p \in Procs |-> {}]
           /\ cur = [p \in Procs |-> None]
           /\ ret = [p \in Procs |-> "return"]
           /\ pending = [p \in Procs |-> None]
           /\ log = <<>>
           /\ rejected = {}
           /\ pre = Some(Snapshot)
           /\ deleting = {}

(* main: the config directory exists, so ensure_config_dir does nothing;   *)
(* the docker probe succeeds; the command is dispatched.                   *)
Invoke_by(self) ==
    /\ pc[self] = "idle"
    /\ PathExists(ConfigDirPath)
    /\ dockerInstalled
    /\ \E c \in ConcurrentCommands :
         /\ cmd' = [cmd EXCEPT ![self] = Some(c)]
         /\ server_name' = [server_name EXCEPT ![self] = c.name]
         /\ pc' = [pc EXCEPT ![self] = HandlerEntry(c.op)]
    /\ log' = Append(log, ByProc(self, Call("docker", "--version", WorkDir, None, "success")))
    /\ now' = now + 1
    /\ UNCHANGED <<dirs, files, running, dockerInstalled, result, rejected, pre, deleting>>
    /\ UNCHANGED <<config, inner, todo, cur, ret, pending>>

create_prompt_by(self) ==
    /\ pc[self] = "create_prompt"
    /\ \E input \in ValidNames :
         server_name' = [server_name EXCEPT ![self] = Some(input)]
    /\ pc' = [pc EXCEPT ![self] = "create_load"]
    /\ UNCHANGED <<dirs, files, running, dockerInstalled, now, cmd, result, log, rejected,
                   pre, deleting>>
    /\ UNCHANGED <<config, inner, todo, cur, ret, pending>>

create_load_by(self) ==
    /\ pc[self] = "create_load"
    /\ LET loaded == load_server_config
           read == ByProc(self, FsOp("read", Resolve(WorkDir, config_path),
                                     loaded.err = "Ok"))
       IN IF loaded.err # "Ok"
          THEN /\ FinishBy(self, loaded.err)
               /\ log' = Append(log, read)
               /\ UNCHANGED <<config, pending>>
          ELSE /\ config' = [config EXCEPT ![self] = Some(loaded.servers)]
               /\ IF Unwrap(server_name[self]) \in DOMAIN loaded.servers
                  THEN /\ FinishBy(self, "ServerExists")
                       /\ log' = Append(log, read)
                       /\ UNCHANGED pending
                  ELSE \E p \in {FirstAnswers}, eula \in BOOLEAN :
                         /\ pending' = [pending EXCEPT ![self] = Some(p)]
                         /\ log' = Append(log, read)
                         /\ IF eula THEN GotoBy(self, "create_dir")
                            ELSE FinishBy(self, "Ok")
    /\ UNCHANGED <<dirs, files, running, dockerInstalled, now, cmd, rejected, pre, deleting>>
    /\ UNCHANGED <<server_name, inner, todo, cur, ret>>

FsStepBy(self, outcomes, op, path, label) ==
    \E o \in outcomes :
        /\ dirs' = o.dirs
        /\ files' = o.files
        /\ UNCHANGED log
        /\ IF o.ok THEN GotoBy(self, label) ELSE FinishBy(self, "Io")

create_dir_by(self) ==
    /\ pc[self] = "create_dir"
    /\ LET data_path == Resolve(WorkDir, data_path_of(Unwrap(server_name[self])))
       IN FsStepBy(self, create_dir_all(data_path), "create_dir_all", data_path,
                   "create_compose")
    /\ UNCHANGED <<running, dockerInstalled, now, cmd, rejected, pre, deleting>>
    /\ UNCHANGED localVars

create_compose_by(self) ==
    /\ pc[self] = "create_compose"
    /\ LET name == Unwrap(server_name[self])
           compose_path == Resolve(WorkDir, PathJoin(data_path_of(name), COMPOSE_FILE))
           yaml == to_yaml(compose_config_of(name, Unwrap(pending[self])))
       IN FsStepBy(self, fs_write(compose_path, yaml), "write", compose_path, "create_save")
    /\ UNCHANGED <<running, dockerInstalled, now, cmd, rejected, pre, deleting>>
    /\ UNCHANGED localVars

fs_open_truncate(a) ==
    IF Parent(a) \notin dirs \/ a \in dirs
    THEN {[ok |-> FALSE, dirs |-> dirs, files |-> files]}
    ELSE {[ok |-> TRUE, dirs |-> dirs, files |-> (a :> Truncated) @@ files],
          [ok |-> FALSE, dirs |-> dirs, files |-> files]}

fs_write_opened(a, content) ==
    {[ok |-> TRUE, dirs |-> dirs, files |-> (a :> content) @@ files],
     [ok |-> FALSE, dirs |-> dirs, files |-> files]}
    \cup (IF a \in DOMAIN files /\ files[a] # Truncated
          THEN {[ok |-> TRUE, dirs |-> dirs, files |-> (a :> Garbled) @@ files]}
          ELSE {})

create_save_by(self) ==
    /\ pc[self] = "create_save"
    /\ LET name == Unwrap(server_name[self])
           servers == (name :> server_info_of(name, Unwrap(pending[self])))
                      @@ Unwrap(config[self])
       IN /\ config' = [config EXCEPT ![self] = Some(servers)]
          /\ ret' = [ret EXCEPT ![self] = "create_confirm_start"]
          /\ FsStepBy(self, fs_open_truncate(Resolve(WorkDir, config_path)), "open",
                      Resolve(WorkDir, config_path), "save_write")
    /\ UNCHANGED <<running, dockerInstalled, now, cmd, rejected, pre, deleting>>
    /\ UNCHANGED <<server_name, inner, todo, cur, pending>>

EffectOfSave(self) ==
    IF ret[self] = "create_confirm_start"
    THEN <<"entry", Unwrap(server_name[self])>>
    ELSE <<"last_started", Unwrap(cur[self])>>

save_server_config_write_by(self) ==
    /\ pc[self] = "save_write"
    /\ LET a == Resolve(WorkDir, config_path)
       IN \E o \in fs_write_opened(a, to_string_pretty(Unwrap(config[self]))) :
            /\ dirs' = o.dirs
            /\ files' = o.files
            /\ log' = Append(log, ByProc(self, FsOp("write", a, o.ok))
                                  @@ [effect |-> EffectOfSave(self),
                                      saved |-> Unwrap(config[self])])
            /\ IF ~o.ok THEN FinishBy(self, "Io")
               ELSE IF ret[self] = "return" THEN FinishBy(self, "Ok")
               ELSE GotoBy(self, ret[self])
    /\ UNCHANGED <<running, dockerInstalled, now, cmd, rejected, pre, deleting>>
    /\ UNCHANGED localVars

create_confirm_start_by(self) ==
    /\ pc[self] = "create_confirm_start"
    /\ \E yes \in BOOLEAN :
         IF yes THEN GotoBy(self, "start_load") ELSE FinishBy(self, "Ok")
    /\ UNCHANGED <<dirs, files, running, dockerInstalled, now, cmd, log, rejected, pre,
                   deleting>>
    /\ UNCHANGED localVars

start_load_by(self) ==
    /\ pc[self] = "start_load"
    /\ LET loaded == load_server_config
       IN /\ log' = Append(log, ByProc(self, FsOp("read", Resolve(WorkDir, config_path),
                                                  loaded.err = "Ok")))
          /\ IF loaded.err # "Ok"
             THEN FinishBy(self, loaded.err) /\ UNCHANGED <<inner, todo>>
             ELSE /\ inner' = [inner EXCEPT ![self] = Some(loaded.servers)]
                  /\ IF IsSome(server_name[self])
                     THEN IF Unwrap(server_name[self]) \in DOMAIN loaded.servers
                          THEN /\ todo' = [todo EXCEPT ![self] = {Unwrap(server_name[self])}]
                               /\ GotoBy(self, "start_single_server")
                          ELSE FinishBy(self, "ServerNotFound") /\ UNCHANGED todo
                     ELSE IF DOMAIN loaded.servers = {}
                          THEN FinishBy(self, "Ok") /\ UNCHANGED todo
                          ELSE /\ todo' = [todo EXCEPT ![self] = DOMAIN loaded.servers]
                               /\ GotoBy(self, "start_single_server")
    /\ UNCHANGED <<dirs, files, running, dockerInstalled, now, cmd, rejected, pre, deleting>>
    /\ UNCHANGED <<server_name, config, cur, ret, pending>>

start_single_server_by(self) ==
    /\ pc[self] = "start_single_server"
    /\ \E name \in todo[self] :
         LET dir == Resolve(WorkDir, PathNew(Unwrap(inner[self])[name].data_path))
         IN \E o \in docker_compose("up", dir) :
              /\ running' = o.running
              /\ IF o.status = "success"
                 THEN /\ cur' = [cur EXCEPT ![self] = Some(name)]
                      /\ GotoBy(self, "update_last_started")
                 ELSE FinishBy(self, StatusError(o.status)) /\ UNCHANGED cur
    /\ UNCHANGED <<dirs, files, dockerInstalled, now, cmd, log, rejected, pre, deleting>>
    /\ UNCHANGED <<server_name, config, inner, todo, ret, pending>>

(* Mutant of update_last_started_load_by: the registry start_servers loaded *)
(* is the one that gets the timestamp and is saved.                         *)
update_last_started_saves_first_load(self) ==
    /\ pc[self] = "update_last_started"
    /\ LET name == Unwrap(cur[self])
           loaded == load_server_config
           rest == todo[self] \ {name}
       IN /\ todo' = [todo EXCEPT ![self] = rest]
          /\ ret' = [ret EXCEPT ![self] = IF rest = {} THEN "return"
                                          ELSE "start_single_server"]
          /\ log' = Append(log, ByProc(self, FsOp("read", Resolve(WorkDir, config_path),
                                                  loaded.err = "Ok")))
          /\ IF loaded.err # "Ok"
             THEN FinishBy(self, loaded.err) /\ UNCHANGED config
             ELSE /\ config' = [config EXCEPT ![self] =
                                  Some([Unwrap(inner[self]) EXCEPT
                                           ![name].last_started = Some(now)])]
                  /\ GotoBy(self, "update_last_started_save")
    /\ UNCHANGED <<dirs, files, running, dockerInstalled, now, cmd, rejected, pre, deleting>>
    /\ UNCHANGED <<server_name, inner, cur, pending>>

update_last_started_load_by(self) ==
    /\ pc[self] = "update_last_started"
    /\ LET name == Unwrap(cur[self])
           loaded == load_server_config
           rest == todo[self] \ {name}
       IN /\ todo' = [todo EXCEPT ![self] = rest]
          /\ ret' = [ret EXCEPT ![self] = IF rest = {} THEN "return"
                                          ELSE "start_single_server"]
          /\ log' = Append(log, ByProc(self, FsOp("read", Resolve(WorkDir, config_path),
                                                  loaded.err = "Ok")))
          /\ IF loaded.err # "Ok"
             THEN FinishBy(self, loaded.err) /\ UNCHANGED config
             ELSE IF name \in DOMAIN loaded.servers
             THEN /\ config' = [config EXCEPT ![self] =
                                  Some([loaded.servers EXCEPT ![name].last_started = Some(now)])]
                  /\ GotoBy(self, "update_last_started_save")
             ELSE /\ UNCHANGED config
                  /\ IF rest = {} THEN FinishBy(self, "Ok")
                     ELSE GotoBy(self, "start_single_server")
    /\ UNCHANGED <<dirs, files, running, dockerInstalled, now, cmd, rejected, pre, deleting>>
    /\ UNCHANGED <<server_name, inner, cur, pending>>

update_last_started_save_by(self) ==
    /\ pc[self] = "update_last_started_save"
    /\ FsStepBy(self, fs_open_truncate(Resolve(WorkDir, config_path)), "open",
                Resolve(WorkDir, config_path), "save_write")
    /\ UNCHANGED <<running, dockerInstalled, now, cmd, rejected, pre, deleting>>
    /\ UNCHANGED localVars

NextConcurrent ==
    \E self \in Procs :
        \/ Invoke_by(self)
        \/ create_prompt_by(self)
        \/ create_load_by(self)
        \/ create_dir_by(self)
        \/ create_compose_by(self)
        \/ create_save_by(self)
        \/ save_server_config_write_by(self)
        \/ create_confirm_start_by(self)
        \/ start_load_by(self)
        \/ start_single_server_by(self)
        \/ update_last_started_load_by(self)
        \/ update_last_started_save_by(self)

SpecConcurrent == InitConcurrent /\ [][NextConcurrent]_vars

(***************************************************************************)
(* C22, as claimed: when both invocations have returned success, every     *)
(* entry and every last_started update that one of them saved is in the    *)
(* persisted registry.                                                     *)
(***************************************************************************)
IsCommit(e) == e.prog = "fs" /\ e.sub = "write" /\ e.status = "success"

IsLoadBy(e, p) == e.prog = "fs" /\ e.sub = "read" /\ e.proc = p

IsProbeBy(e, p) == e.prog = "docker" /\ e.proc = p

EffectKept(e) ==
    LET n == e.effect[2]
    IN /\ n \in Registered
       /\ IF e.effect[1] = "entry"
          THEN WithoutLastStarted(Registry[n]) = WithoutLastStarted(e.saved[n])
          ELSE /\ IsSome(Registry[n].last_started)
               /\ Unwrap(Registry[n].last_started) >= Unwrap(e.saved[n].last_started)

BothReturnedOk == \A p \in Procs : pc[p] = "done" /\ result[p] = Some("Ok")

C22_Original ==
    BothReturnedOk => \A i \in 1..Len(log) : IsCommit(log[i]) => EffectKept(log[i])

(***************************************************************************)
(* C22, amended: when both invocations have returned success and every     *)
(* save was made from a registry its invocation loaded after every earlier *)
(* save had been written, every entry and every last_started update that   *)
(* was saved is in the persisted registry.                                 *)
(***************************************************************************)
LoadedAfter(j, i) ==
    \E k \in (i + 1)..(j - 1) : IsLoadBy(log[k], log[j].proc)

SavesFromFreshLoads ==
    \A i \in 1..Len(log), j \in 1..Len(log) :
        (i < j /\ IsCommit(log[i]) /\ IsCommit(log[j])) => LoadedAfter(j, i)

C22_NoLostUpdateWithoutOverlap ==
    (BothReturnedOk /\ SavesFromFreshLoads)
    => \A i \in 1..Len(log) : IsCommit(log[i]) => EffectKept(log[i])

C22_Witness ==
    /\ BothReturnedOk
    /\ SavesFromFreshLoads
    /\ \E i \in 1..Len(log), j \in 1..Len(log), k \in 1..Len(log) :
         /\ k < i /\ i < j
         /\ IsCommit(log[i]) /\ IsCommit(log[j])
         /\ log[i].proc # log[j].proc
         /\ IsProbeBy(log[k], log[j].proc)
         /\ log[i].effect[1] = "entry"
         /\ log[j].effect[1] = "last_started"
         /\ log[i].effect[2] # log[j].effect[2]

====
